---- MODULE Spec2Model ----
(***************************************************************************)
(* Size-confirmation workflow of kaspi_etl: the batch tick                 *)
(* (scripts/size_workflow.py), the outbound dispatcher                     *)
(* (integrations/whatsapp_api.py), the inbound webhook                     *)
(* (services/wa_webhook.py), the recommendation engine                     *)
(* (scripts/size_recommendation_engine.py) and the WABA client            *)
(* (services/waba_client.py).                                              *)
(*                                                                         *)
(* Every database statement followed by its commit is one step: the code   *)
(* commits after each INSERT/UPDATE (upsert_size_reco,                     *)
(* update_workflow_state, _insert_wa_outbox each call conn.commit()).      *)
(***************************************************************************)
EXTENDS Integers, Sequences, FiniteSets, TLC

\* ------------------------------------------------------------------ bounds
\* Inbound timestamps range over 1..MaxTs (second granularity).
MaxTs == 2
\* Inbound timestamps of the specification with overlapping runs.
MaxTsConc == 1
\* Number of runs of process_once that may be started.
MaxTicks == 2
\* Number of direct dispatcher calls explored by SpecSend.
MaxCalls == 2

\* --------------------------------------------------------------- constants
STATE_NEW == "NEW"
STATE_WAITING_SIZE_INFO == "WAITING_SIZE_INFO"
STATE_PROPOSING_SIZE == "PROPOSING_SIZE"
STATE_WAITING_CONFIRM == "WAITING_CONFIRM"
STATE_CONFIRMED == "CONFIRMED"

States ==
  {STATE_NEW, STATE_WAITING_SIZE_INFO, STATE_PROPOSING_SIZE,
   STATE_WAITING_CONFIRM, STATE_CONFIRMED}

Templates == {"size_check", "size_confirm", "size_check_again"}

\* A key that is missing from parsed_json / a NULL column.
Absent == -1
NoPhone == "none"
NoSize == "none"
NoConf == "none"

Orders == {"o1", "o2"}
Phones == {"p1"}
\* The two processes that may run process_once; Spec runs only the first.
\* The runs are alike, so the second process is used only for a run that
\* starts while the first is running.
Ticks == {"t1", "t2"}
SeqTicks == {"t1"}

\* find_latest_* read at most this many rows of a phone.
InboxScanLimit == 50

\* ------------------------------------------------- inbound text and parser
\* A text is a sequence of characters.  ASCII characters stand for
\* themselves; a Cyrillic or Kazakh letter is written as a name: "ru_d" is
\* the Russian letter de, "RU_D" its capital, "kz_ae" the Kazakh schwa,
\* "kz_q" the Kazakh qa.
DigitChars == << "0", "1", "2", "3", "4", "5", "6", "7", "8", "9" >>
IsDigit(c) == \E d \in 1..10 : DigitChars[d] = c
DigitValue(c) == (CHOOSE d \in 1..10 : DigitChars[d] = c) - 1

\* \s
IsSpace(c) == c \in {" ", "\t", "\n"}
\* [\w...]: everything of the alphabet used here but white space and
\* punctuation.
IsWordChar(c) == ~IsSpace(c) /\ c \notin {",", ".", "!", "?", ":", "-"}

\* str.lower() / re.IGNORECASE on one character.
Lower(c) ==
  CASE c = "RU_D" -> "ru_d"
    [] c = "RU_N" -> "ru_n"
    [] c = "RU_S" -> "ru_s"
    [] c = "RU_M" -> "ru_m"
    [] c = "RU_K" -> "ru_k"
    [] c = "RU_G" -> "ru_g"
    [] c = "RU_A" -> "ru_a"
    [] c = "Y" -> "y"
    [] c = "E" -> "e"
    [] c = "S" -> "s"
    [] c = "O" -> "o"
    [] c = "N" -> "n"
    [] c = "C" -> "c"
    [] c = "M" -> "m"
    [] c = "K" -> "k"
    [] c = "G" -> "g"
    [] OTHER -> c

LowerText(text) == [i \in 1..Len(text) |-> Lower(text[i])]

\* str(n) of a natural number.
RECURSIVE Digits(_)
Digits(n) ==
  IF n < 10 THEN << DigitChars[n + 1] >>
  ELSE Append(Digits(n \div 10), DigitChars[(n % 10) + 1])

\* int(s) of a string of digits.
RECURSIVE IntOf(_)
IntOf(s) ==
  IF Len(s) = 0 THEN 0
  ELSE 10 * IntOf(SubSeq(s, 1, Len(s) - 1)) + DigitValue(s[Len(s)])

\* The unit alternatives of HEIGHT_RE and WEIGHT_RE.
HeightUnits == { << "ru_s", "ru_m" >>, << "c", "m" >> }
WeightUnits == { << "ru_k", "ru_g" >>, << "k", "g" >> }
yes_words == { << "ru_d", "ru_a" >>, << "kz_i", "kz_ae" >>, << "kz_i", "ru_a" >>,
               << "y", "e", "s" >>, << "y" >> }
no_words == { << "ru_n", "ru_e", "ru_t" >>, << "ru_zh", "ru_o", "kz_q" >>,
              << "j", "o", "q" >>, << "n", "o" >>, << "n" >> }

Min(S) == CHOOSE x \in S : \A y \in S : x <= y
Max(S) == CHOOSE x \in S : \A y \in S : x >= y

\* The position after the white space that starts at position j.
RECURSIVE SkipSpace(_, _)
SkipSpace(text, j) ==
  IF j <= Len(text) /\ IsSpace(text[j]) THEN SkipSpace(text, j + 1) ELSE j

\* (\d{k})\s*(unit) matches at position i, case ignored.
MatchAt(text, units, i, k) ==
  /\ i + k - 1 <= Len(text)
  /\ \A d \in i..(i + k - 1) : IsDigit(text[d])
  /\ LET j == SkipSpace(text, i + k)
     IN  \E u \in units :
            /\ j + Len(u) - 1 <= Len(text)
            /\ \A x \in 1..Len(u) : Lower(text[j + x - 1]) = u[x]

\* Mutant: only the last two digits of the match are converted.
UnitSearch_two_digits(text, units) ==
  LET m == {i \in 1..Len(text) :
              MatchAt(text, units, i, 3) \/ MatchAt(text, units, i, 2)}
  IN  IF m = {} THEN Absent
      ELSE LET i == Min(m)
               k == IF MatchAt(text, units, i, 3) THEN 3 ELSE 2
           IN  IntOf(SubSeq(text, i + k - 2, i + k - 1))

\* re.search of (\d{2,3})\s*(unit): the leftmost position with a match,
\* three digits tried before two; int(group(1)), Absent without a match.
UnitSearch(text, units) ==
  LET m == {i \in 1..Len(text) :
              MatchAt(text, units, i, 3) \/ MatchAt(text, units, i, 2)}
  IN  IF m = {} THEN Absent
      ELSE LET i == Min(m)
               k == IF MatchAt(text, units, i, 3) THEN 3 ELSE 2
           IN  IntOf(SubSeq(text, i, i + k - 1))

\* re.findall(r"[\w...]+", t): the maximal runs of word characters, as
\* pairs <<first, last>>.
Tokens(text) ==
  {r \in (1..Len(text)) \X (1..Len(text)) :
      /\ r[1] <= r[2]
      /\ \A x \in r[1]..r[2] : IsWordChar(text[x])
      /\ (r[1] = 1 \/ ~IsWordChar(text[r[1] - 1]))
      /\ (r[2] = Len(text) \/ ~IsWordChar(text[r[2] + 1]))}

\* Mutant: the last token of either set decides.
parse_confirmation_last(text) ==
  LET t == LowerText(text)
      hits == {r \in Tokens(t) :
                 SubSeq(t, r[1], r[2]) \in (yes_words \cup no_words)}
  IN  IF hits = {} THEN NoConf
      ELSE LET last == CHOOSE r \in hits : \A q \in hits : r[1] >= q[1]
           IN  IF SubSeq(t, last[1], last[2]) \in yes_words
               THEN "yes" ELSE "no"

parse_confirmation(text) ==
  LET t == LowerText(text)
      hits == {r \in Tokens(t) :
                 SubSeq(t, r[1], r[2]) \in (yes_words \cup no_words)}
  IN  IF hits = {} THEN NoConf
      ELSE LET first == CHOOSE r \in hits : \A q \in hits : r[1] <= q[1]
           IN  IF SubSeq(t, first[1], first[2]) \in yes_words
               THEN "yes" ELSE "no"

enrich_parsed(text) ==
  [height_cm |-> UnitSearch(text, HeightUnits),
   weight_kg |-> UnitSearch(text, WeightUnits),
   confirmation |-> parse_confirmation(text)]

\* Pieces of the texts used below.
Sp == << " " >>
RuSm == << "ru_s", "ru_m" >>
RuKg == << "ru_k", "ru_g" >>
RuDa == << "ru_d", "ru_a" >>
RuNet == << "ru_n", "ru_e", "ru_t" >>
\* f"{h} cm-word {w} kg-word" with the Russian unit words.
FormatHW(h, w) == Digits(h) \o Sp \o RuSm \o Sp \o Digits(w) \o Sp \o RuKg
\* "Net, ne podhodit" in Russian (no, it does not fit).
TextNetNePodhodit ==
  << "RU_N", "ru_e", "ru_t", ",", " ", "ru_n", "ru_e", " ",
     "ru_p", "ru_o", "ru_d", "ru_h", "ru_o", "ru_d", "ru_i", "ru_t" >>

\* The inbound texts the webhook receives in this model.
InboundTexts ==
  { FormatHW(175, 80),
    FormatHW(185, 95),
    FormatHW(185, 95) \o Sp \o RuDa,
    << "RU_D", "ru_a" >>,
    TextNetNePodhodit,
    FormatHW(175, 80) \o Sp \o RuNet,
    Digits(175) \o Sp \o RuSm }

\* parsed = enrich_parsed(text) of each of them.
ParsedOf == [t \in InboundTexts |-> enrich_parsed(t)]

\* ------------------------------------------------- recommendation engine
\* SIZE_CHARTS['CL']['Men']['height_weight_matrix'], in insertion order:
\* <<h_min, h_max, w_min, w_max, size>>.
MenChart ==
  << <<165, 170, 60, 70, "S">>,    <<165, 170, 70, 80, "M">>,
     <<165, 170, 80, 90, "L">>,    <<170, 175, 60, 70, "S">>,
     <<170, 175, 70, 80, "M">>,    <<170, 175, 80, 90, "L">>,
     <<170, 175, 90, 100, "XL">>,  <<175, 180, 65, 75, "M">>,
     <<175, 180, 75, 85, "L">>,    <<175, 180, 85, 95, "XL">>,
     <<175, 180, 95, 105, "2XL">>, <<180, 185, 70, 80, "L">>,
     <<180, 185, 80, 90, "XL">>,   <<180, 185, 90, 100, "2XL">>,
     <<180, 185, 100, 110, "3XL">>, <<185, 195, 75, 85, "XL">>,
     <<185, 195, 85, 95, "2XL">>,  <<185, 195, 95, 110, "3XL">>,
     <<185, 195, 110, 125, "4XL">> >>

\* SIZE_CHARTS['CL']['Women']['height_weight_matrix'], in insertion order.
WomenChart ==
  << <<155, 165, 45, 55, "S">>,   <<155, 165, 55, 65, "M">>,
     <<155, 165, 65, 75, "L">>,   <<165, 170, 50, 60, "S">>,
     <<165, 170, 60, 70, "M">>,   <<165, 170, 70, 80, "L">>,
     <<165, 170, 80, 90, "XL">>,  <<170, 175, 55, 65, "M">>,
     <<170, 175, 65, 75, "L">>,   <<170, 175, 75, 85, "XL">>,
     <<170, 175, 85, 95, "2XL">>, <<175, 180, 60, 70, "L">>,
     <<175, 180, 70, 80, "XL">>,  <<175, 180, 80, 90, "2XL">> >>

\* SIZE_CHARTS['CL']['Kids']: age_height_matrix as
\* <<age_min, age_max, h_min, h_max, size>> and height_sizes as
\* <<size, h_min, h_max>>, both in insertion order.
KidsAgeHeightMatrix ==
  << <<2, 3, 85, 95, "22">>,   <<3, 4, 95, 105, "24">>,
     <<4, 5, 105, 115, "26">>, <<5, 6, 115, 125, "28">>,
     <<6, 7, 125, 135, "30">>, <<7, 8, 135, 145, "32">>,
     <<8, 9, 145, 155, "34">> >>

KidsHeightSizes ==
  << <<"22", 85, 95>>,   <<"24", 95, 105>>,  <<"26", 105, 115>>,
     <<"28", 115, 125>>, <<"30", 125, 135>>, <<"32", 135, 145>>,
     <<"34", 145, 155>> >>

Abs(x) == IF x < 0 THEN -x ELSE x
Min2(a, b) == IF a <= b THEN a ELSE b
Max2(a, b) == IF a >= b THEN a ELSE b

\* Scores and confidences are kept in twentieths: 0.5 is 10, 0.3 is 6,
\* distance/20 is distance, distance/10 is 2*distance.
Half20 == 10
AltThreshold20 == 6
Default20 == 4
Full20 == 20

Score20(h, w, e) ==
  LET hs == IF e[1] <= h /\ h <= e[2] THEN Half20
            ELSE Max2(0, Half20 - Min2(Abs(h - e[1]), Abs(h - e[2])))
      ws == IF e[3] <= w /\ w <= e[4] THEN Half20
            ELSE Max2(0, Half20 - 2 * Min2(Abs(w - e[3]), Abs(w - e[4])))
  IN  hs + ws

\* The score is a sum of two binary floating point numbers. For these
\* distances of the height and of the weight (0 inside the range, from 10
\* resp. 5 on the part is 0) the sum is the float just below the twentieth,
\* for those just above it, for all others the float nearest to it.
FloatBelow ==
  { <<9, 5>>, <<8, 5>>, <<10, 4>>, <<9, 4>>, <<8, 4>>, <<4, 4>>, <<8, 2>>,
    <<3, 4>>, <<3, 2>> }
FloatAbove == { <<7, 5>>, <<7, 3>>, <<2, 3>>, <<6, 1>>, <<1, 1>> }

\* The score as the float the code compares: the twentieth t and the
\* deviation u of the float from it.
FloatScore(h, w, e) ==
  LET hd == IF e[1] <= h /\ h <= e[2] THEN 0
            ELSE Min2(Half20, Min2(Abs(h - e[1]), Abs(h - e[2])))
      wd == IF e[3] <= w /\ w <= e[4] THEN 0
            ELSE Min2(Half20 \div 2, Min2(Abs(w - e[3]), Abs(w - e[4])))
  IN  [t |-> Score20(h, w, e),
       u |-> IF << hd, wd >> \in FloatBelow THEN -1
             ELSE IF << hd, wd >> \in FloatAbove THEN 1 ELSE 0]

\* a > b on these floats
FloatGreater(a, b) == a.t > b.t \/ (a.t = b.t /\ a.u > b.u)

\* Mutant: the last entry that reaches the best score is kept.
RECURSIVE AdultLoop_last_wins(_, _, _, _, _)
AdultLoop_last_wins(chart, h, w, i, st) ==
  IF i > Len(chart) THEN st
  ELSE
    LET sc == FloatScore(h, w, chart[i])
        nx == IF ~FloatGreater(st.score, sc) /\ sc.t > 0
              THEN [best |-> << chart[i][5], sc >>,
                    score |-> sc,
                    alts |-> IF st.best # <<>> THEN Append(st.alts, st.best)
                             ELSE st.alts]
              ELSE IF FloatGreater(sc, [t |-> AltThreshold20, u |-> 0])
              THEN [st EXCEPT !.alts = Append(st.alts, << chart[i][5], sc >>)]
              ELSE st
    IN  AdultLoop_last_wins(chart, h, w, i + 1, nx)

\* The loop of _recommend_adult_size over the chart entries i..Len(chart);
\* st = [best: <<size, score>> or <<>>, score, alts].
RECURSIVE AdultLoop(_, _, _, _, _)
AdultLoop(chart, h, w, i, st) ==
  IF i > Len(chart) THEN st
  ELSE
    LET sc == FloatScore(h, w, chart[i])
        nx == IF FloatGreater(sc, st.score)
              THEN [best |-> << chart[i][5], sc >>,
                    score |-> sc,
                    alts |-> IF st.best # <<>> THEN Append(st.alts, st.best)
                             ELSE st.alts]
              ELSE IF FloatGreater(sc, [t |-> AltThreshold20, u |-> 0])
              THEN [st EXCEPT !.alts = Append(st.alts, << chart[i][5], sc >>)]
              ELSE st
    IN  AdultLoop(chart, h, w, i + 1, nx)

\* alternatives.sort(key=score, reverse=True): stable, so entries of equal
\* score keep their order.
RECURSIVE InsertDesc(_, _)
InsertDesc(s, x) ==
  IF s = << >> THEN << x >>
  ELSE IF FloatGreater(x[2], Head(s)[2]) THEN << x >> \o s
  ELSE << Head(s) >> \o InsertDesc(Tail(s), x)

RECURSIVE SortDesc(_)
SortDesc(s) ==
  IF s = << >> THEN << >>
  ELSE InsertDesc(SortDesc(SubSeq(s, 1, Len(s) - 1)), s[Len(s)])

AdultStart == [best |-> << >>, score |-> [t |-> 0, u |-> 0], alts |-> << >>]

\* alternatives[:3] after the sort, as <<size, score>>.
adult_alternatives(h, w, chart) ==
  LET sorted == SortDesc(AdultLoop(chart, h, w, 1, AdultStart).alts)
  IN  SubSeq(sorted, 1, Min2(3, Len(sorted)))

recommend_adult_size(h, w, chart) ==
  LET st == AdultLoop(chart, h, w, 1, AdultStart)
      alts == adult_alternatives(h, w, chart)
  IN  IF st.best # <<>>
      THEN [recommended_size |-> st.best[1], confidence |-> st.best[2].t,
            alternative_sizes |-> [i \in 1..Len(alts) |-> alts[i][1]]]
      ELSE [recommended_size |-> "M", confidence |-> Default20,
            alternative_sizes |-> << "S", "L", "XL" >>]

\* Confidences of _recommend_kids_size in twentieths: 0.9, 0.8, 0.3, 0.1.
KidsExact20 == 18
KidsInside20 == 16
KidsFloor20 == 6
KidsDefault20 == 2

\* The height-only loop over height_sizes from entry i: the first entry
\* whose range holds the height ends it; else the first entry at the least
\* distance is kept. st = [inside, size, distance], distance -1 for inf.
RECURSIVE KidsLoop(_, _, _, _)
KidsLoop(sizes, h, i, st) ==
  IF i > Len(sizes) THEN st
  ELSE LET e == sizes[i]
           d == Min2(Abs(h - e[2]), Abs(h - e[3]))
       IN  IF e[2] <= h /\ h <= e[3]
           THEN [inside |-> TRUE, size |-> e[1], distance |-> 0]
           ELSE KidsLoop(sizes, h, i + 1,
                         IF st.distance = -1 \/ d < st.distance
                         THEN [inside |-> FALSE, size |-> e[1], distance |-> d]
                         ELSE st)

\* _recommend_kids_size; age is Absent for None.
recommend_kids_size(height_cm, age, matrix, sizes) ==
  LET exact == {i \in 1..Len(matrix) :
                   /\ matrix[i][1] <= age /\ age <= matrix[i][2]
                   /\ matrix[i][3] <= height_cm /\ height_cm <= matrix[i][4]}
      st == KidsLoop(sizes, height_cm, 1,
                     [inside |-> FALSE, size |-> NoSize, distance |-> -1])
  IN  IF age # Absent /\ age # 0 /\ exact # {}
      THEN [recommended_size |-> matrix[Min(exact)][5],
            confidence |-> KidsExact20, alternative_sizes |-> << >>]
      ELSE IF st.inside
      THEN [recommended_size |-> st.size, confidence |-> KidsInside20,
            alternative_sizes |-> << >>]
      ELSE IF st.size # NoSize
      THEN [recommended_size |-> st.size,
            confidence |-> Max2(KidsFloor20, Full20 - st.distance),
            alternative_sizes |-> << >>]
      ELSE [recommended_size |-> "26", confidence |-> KidsDefault20,
            alternative_sizes |-> << "24", "28" >>]

\* recommend_size: the chart of the product type and gender, or the
\* fallback answer when there is none.
Unknown20 == 2
recommend_size(height_cm, weight_kg, gender, product_type, age) ==
  IF product_type # "CL"
  THEN [recommended_size |-> "M", confidence |-> Unknown20,
        alternative_sizes |-> << "S", "L" >>]
  ELSE IF gender \notin {"Men", "Women", "Kids"}
  THEN [recommended_size |-> "M", confidence |-> Unknown20,
        alternative_sizes |-> << "S", "L" >>]
  ELSE IF gender = "Kids"
  THEN recommend_kids_size(height_cm, age, KidsAgeHeightMatrix, KidsHeightSizes)
  ELSE recommend_adult_size(height_cm, weight_kg,
                            IF gender = "Men" THEN MenChart ELSE WomenChart)

\* compute_recommendation: gender "Men", product type "CL" whatever the
\* sku; the size and the confidence of the answer.
compute_recommendation(h, w) ==
  LET rec == recommend_size(h, w, "Men", "CL", Absent)
  IN  [recommended_size |-> rec.recommended_size, confidence |-> rec.confidence]

\* compute_recommendation on the measurements the inbound texts carry.
RecommendationOf ==
  [hw \in {<< ParsedOf[x].height_cm, ParsedOf[x].weight_kg >> : x \in InboundTexts}
     |-> compute_recommendation(hw[1], hw[2])]

\* ------------------------------------------------------------------ state
VARIABLES
  workflows,    \* workflows.state by order_id
  customers,    \* customers.phone by id (the order id), NoPhone when missing
  wa_inbox,     \* set of rows [ts, from_phone, text, parsed]; id = ts:from_phone
  events_log,   \* set of ids of the wa_inbound events
  wa_outbox,    \* sequence of rows, in insertion order
  size_recommendations,  \* sequence of rows, in insertion order
  pc,           \* position of each process_once run
  todo,         \* rows of the current phase's SELECT still to be visited
  cur,          \* order_id of the loop body being executed
  dry_run,      \* the flag each run loaded from STATE.json
  loc,          \* locals of the loop body: height, weight, rec_size, confidence
  nticks,       \* number of runs started
  quiet,        \* history: what the last run left, while no inbound arrived since
  startWf,      \* history: workflows as the running tick found it
  startCnt,     \* history: rows per order as the running tick found them
  lastSend,     \* history: the last direct send_message call and its result
  ncalls,       \* number of direct dispatcher calls
  waba,         \* the WABA client call in progress and its request attempts
  call,         \* a pure function's call: its arguments and its result
  label,        \* the label sender: wa_sent_log.csv and its last client calls
  handed,       \* the messages given to the vendor or written as dry-run artifacts
  proposal,     \* history: per order, the wa_inbox rows that were there when
                \* its first size_confirm row was inserted
  hook          \* the last request to /wa/inbound and its answer

vars ==
  << workflows, customers, wa_inbox, events_log, wa_outbox,
     size_recommendations, pc, todo, cur, dry_run, loc, nticks, quiet,
     startWf, startCnt, lastSend, ncalls, waba, call, label, handed,
     proposal, hook >>

storeVars == << workflows, customers, wa_inbox, events_log, wa_outbox,
                size_recommendations >>
tickVars == << pc, todo, cur, dry_run, loc, nticks, startWf, startCnt >>
sendVars == << lastSend, ncalls, waba, call, label, handed, proposal, hook >>

\* No size_confirm row of the order has been inserted yet.
NoProposal == [o \in Orders |-> [made |-> FALSE, inbox |-> {}]]

\* The history of the first size_confirm row of an order, after rows were
\* inserted for this order and template.
Proposed(order_id, template, rows) ==
  IF template = "size_confirm" /\ rows # << >> /\ ~proposal[order_id].made
  THEN [proposal EXCEPT ![order_id] = [made |-> TRUE, inbox |-> wa_inbox]]
  ELSE proposal

NoLoc == [height |-> Absent, weight |-> Absent, rec_size |-> NoSize, confidence |-> 0]
NoOrder == "none"

\* ------------------------------------------------------------ store reads
get_customer_phone(order_id) == customers[order_id]

\* Mutant: wa_outbox_sent never finds a row.
wa_outbox_sent_never(order_id, template) == FALSE

\* Mutant: only a SENT or DRY_RUN row counts.
wa_outbox_sent_delivered(order_id, template) ==
  \E i \in 1..Len(wa_outbox) :
     /\ wa_outbox[i].order_id = order_id /\ wa_outbox[i].template = template
     /\ wa_outbox[i].status \in {"SENT", "DRY_RUN"}

\* Mutant: wa_outbox_sent always finds a row.
wa_outbox_sent_always(order_id, template) == TRUE

\* SELECT 1 FROM wa_outbox WHERE order_id=? AND template=? LIMIT 1
wa_outbox_sent(order_id, template) ==
  \E i \in 1..Len(wa_outbox) :
     wa_outbox[i].order_id = order_id /\ wa_outbox[i].template = template

\* The rows of a phone that ORDER BY created_at DESC LIMIT 50 returns.
LatestRows(phone) ==
  LET mine == {r \in wa_inbox : r.from_phone = phone}
  IN  {r \in mine : Cardinality({q \in mine : q.ts > r.ts}) < InboxScanLimit}

HasMeasurements(r) ==
  r.parsed.height_cm # Absent /\ r.parsed.weight_kg # Absent

\* Mutant: the newest scanned row, whatever its keys.
find_latest_inbox_any(phone) ==
  LET c == LatestRows(phone)
  IN  {r \in c : \A q \in c : q.ts <= r.ts}

\* The newest scanned row with both keys, or {} when there is none.
find_latest_inbox_with_measurements(phone) ==
  LET c == {r \in LatestRows(phone) : HasMeasurements(r)}
  IN  {r \in c : \A q \in c : q.ts <= r.ts}

find_latest_confirmation(phone) ==
  LET c == {r \in LatestRows(phone) : r.parsed.confirmation \in {"yes", "no"}}
  IN  IF c = {} THEN NoConf
      ELSE (CHOOSE r \in c : \A q \in c : q.ts <= r.ts).parsed.confirmation

\* Indexes of the rows of an order in size_recommendations.
RecoIdx(order_id) ==
  {i \in 1..Len(size_recommendations) :
      size_recommendations[i].order_id = order_id}

\* ------------------------------------------------------------- dispatcher
Vendors == {"twilio", "d360", "other"}
\* What httpx.post does: a 2xx answer with a JSON body, an error status with
\* a JSON body, the 400 answer whose JSON body carries error code 470
\* (outside the session window), an answer whose body is not JSON, a timeout.
HttpOutcomes == {"ok", "status_error", "session_window", "not_json", "timeout"}
Envs == [vendor : Vendors, creds : BOOLEAN, http : HttpOutcomes]

OutboxRow(order_id, to, template, size, status, err) ==
  [order_id |-> order_id, to_phone |-> to, template |-> template,
   size |-> size, status |-> status, err |-> err]

\* Mutant: a timeout of the request leaves the call as an exception and no
\* row is inserted.
send_message_timeout_escapes(to, template, size, dry, order_id, env) ==
  LET known == env.vendor \in {"twilio", "d360"}
      posted == known /\ env.creds
      ok == posted /\ env.http = "ok"
      status == IF dry THEN "DRY_RUN" ELSE IF ok THEN "SENT" ELSE "ERROR"
      escapes == ~dry /\ posted /\ env.http = "timeout"
  IN  [rows |-> IF escapes THEN << >>
                ELSE << OutboxRow(order_id, to, template, size, status,
                                  ~dry /\ ~ok) >>,
       status |-> status,
       requests |-> IF ~dry /\ posted THEN 1 ELSE 0,
       raised |-> escapes]

\* send_message: the rows it inserts, the status it returns, the number of
\* vendor requests it makes, and whether an exception leaves it.
send_message(to, template, size, dry, order_id, env) ==
  IF dry
  THEN [rows |-> << OutboxRow(order_id, to, template, size, "DRY_RUN", FALSE) >>,
        status |-> "DRY_RUN", requests |-> 0, raised |-> FALSE]
  ELSE
    LET known == env.vendor \in {"twilio", "d360"}
        posted == known /\ env.creds
        ok == posted /\ env.http = "ok"
        status == IF ok THEN "SENT" ELSE "ERROR"
    IN  [rows |-> << OutboxRow(order_id, to, template, size, status, ~ok) >>,
         status |-> status,
         requests |-> IF posted THEN 1 ELSE 0,
         raised |-> FALSE]

\* ------------------------------------------------------------ store writes
\* Mutant: the proposal is recorded as a state of its own.
update_workflow_state_proposing(order_id, new_state) ==
  workflows' = [workflows EXCEPT ![order_id] =
                  IF new_state = STATE_WAITING_CONFIRM
                  THEN STATE_PROPOSING_SIZE ELSE new_state]

\* UPDATE workflows SET state=? WHERE order_id=? ; commit
update_workflow_state(order_id, new_state) ==
  workflows' = [workflows EXCEPT ![order_id] = new_state]

\* INSERT INTO size_recommendations ... ; commit
\* now_iso() has second granularity: the second of the newest dated row, or
\* a later one. A row without created_at (NULL, written as NoTime) has no
\* second.
NoTime == 0
NowChoices ==
  LET dated == {size_recommendations[i].created_at :
                   i \in 1..Len(size_recommendations)} \ {NoTime}
  IN  IF dated = {} THEN {1}
      ELSE LET last == CHOOSE d \in dated : \A e \in dated : e <= d
           IN  {last, last + 1}

upsert_size_reco(order_id, rec_size, confidence, height, weight, final_size) ==
  \E now \in NowChoices :
    size_recommendations' =
      Append(size_recommendations,
             [order_id |-> order_id, recommended_size |-> rec_size,
              confidence |-> confidence, height |-> height, weight |-> weight,
              final_size |-> final_size, created_at |-> now])

\* The call of send_message in a loop body; an exception would leave
\* process_once, which catches nothing.
SendStep(t, template, size, next) ==
  \E env \in Envs :
    LET r == send_message(get_customer_phone(cur[t]), template, size,
                          dry_run[t], cur[t], env)
    IN  /\ wa_outbox' = wa_outbox \o r.rows
        /\ proposal' = Proposed(cur[t], template, r.rows)
        /\ pc' = [pc EXCEPT ![t] = IF r.raised THEN "aborted" ELSE next]

\* The numbers of wa_outbox rows and of size_recommendations rows per order.
RowCounts ==
  [o \in Orders |->
     [out |-> Cardinality({i \in 1..Len(wa_outbox) : wa_outbox[i].order_id = o}),
      reco |-> Cardinality(RecoIdx(o))]]

NoQuiet == [mode |-> "none", wf |-> [o \in Orders |-> STATE_NEW], n |-> 0]

\* ------------------------------------------------------- process_once steps
\* load_flags, the count query and the SELECT of the NEW orders.
TickStart(t) ==
  /\ pc[t] = "idle"
  /\ nticks < MaxTicks
  /\ t \in SeqTicks \/ \E u \in SeqTicks : pc[u] # "idle"
  /\ nticks' = nticks + 1
  /\ \E d \in BOOLEAN : dry_run' = [dry_run EXCEPT ![t] = d]
  /\ todo' = [todo EXCEPT ![t] = {o \in Orders : workflows[o] = STATE_NEW}]
  /\ pc' = [pc EXCEPT ![t] = "p1"]
  /\ startWf' = workflows
  /\ startCnt' = RowCounts
  /\ quiet' = IF quiet.mode = "none" THEN [quiet EXCEPT !.mode = "armed"] ELSE quiet
  /\ UNCHANGED << storeVars, cur, loc, sendVars >>

\* 1) NEW: phone lookup and the wa_outbox_sent check of one order.
P1Next(t) ==
  /\ pc[t] = "p1"
  /\ \E o \in todo[t] :
       /\ todo' = [todo EXCEPT ![t] = @ \ {o}]
       /\ IF get_customer_phone(o) = NoPhone
          THEN UNCHANGED << pc, cur >>
          ELSE /\ cur' = [cur EXCEPT ![t] = o]
               /\ pc' = [pc EXCEPT ![t] =
                           IF ~wa_outbox_sent(o, "size_check")
                           THEN "p1_send" ELSE "p1_update"]
  /\ UNCHANGED << storeVars, dry_run, loc, nticks, quiet, startWf, startCnt, sendVars >>

P1Send(t) ==
  /\ pc[t] = "p1_send"
  /\ SendStep(t, "size_check", NoSize, "p1_update")
  /\ UNCHANGED << workflows, customers, wa_inbox, events_log,
                  size_recommendations, todo, cur, dry_run, loc, nticks,
                  quiet, startWf, startCnt, lastSend, ncalls, waba, call,
                  label, handed, hook >>

P1Update(t) ==
  /\ pc[t] = "p1_update"
  /\ update_workflow_state(cur[t], STATE_WAITING_SIZE_INFO)
  /\ pc' = [pc EXCEPT ![t] = "p1"]
  /\ cur' = [cur EXCEPT ![t] = NoOrder]
  /\ loc' = [loc EXCEPT ![t] = NoLoc]
  /\ UNCHANGED << customers, wa_inbox, events_log, wa_outbox,
                  size_recommendations, todo, dry_run, nticks,
                  quiet, startWf, startCnt, sendVars >>

\* End of loop 1 and the SELECT of the WAITING_SIZE_INFO orders.
P1Done(t) ==
  /\ pc[t] = "p1"
  /\ todo[t] = {}
  /\ todo' = [todo EXCEPT ![t] =
                {o \in Orders : workflows[o] = STATE_WAITING_SIZE_INFO}]
  /\ pc' = [pc EXCEPT ![t] = "p2"]
  /\ UNCHANGED << storeVars, cur, dry_run, loc, nticks, quiet, startWf, startCnt, sendVars >>

\* 2) WAITING_SIZE_INFO: phone lookup, inbox scan and compute_recommendation.
P2Next(t) ==
  /\ pc[t] = "p2"
  /\ \E o \in todo[t] :
       /\ todo' = [todo EXCEPT ![t] = @ \ {o}]
       /\ LET phone == get_customer_phone(o)
              inbound == IF phone = NoPhone THEN {}
                         ELSE find_latest_inbox_with_measurements(phone)
          IN  IF inbound = {}
              THEN UNCHANGED << pc, cur, loc >>
              ELSE \E r \in inbound :
                     LET rec == RecommendationOf[<< r.parsed.height_cm,
                                                    r.parsed.weight_kg >>]
                     IN  /\ cur' = [cur EXCEPT ![t] = o]
                         /\ loc' = [loc EXCEPT ![t] =
                                      [height |-> r.parsed.height_cm,
                                       weight |-> r.parsed.weight_kg,
                                       rec_size |-> rec.recommended_size,
                                       confidence |-> rec.confidence]]
                         /\ pc' = [pc EXCEPT ![t] = "p2_reco"]
  /\ UNCHANGED << storeVars, dry_run, nticks, quiet, startWf, startCnt, sendVars >>

\* Save recommendation snapshot.
P2Reco(t) ==
  /\ pc[t] = "p2_reco"
  /\ upsert_size_reco(cur[t], loc[t].rec_size, loc[t].confidence,
                      loc[t].height, loc[t].weight, NoSize)
  /\ pc' = [pc EXCEPT ![t] = "p2_check"]
  /\ UNCHANGED << workflows, customers, wa_inbox, events_log, wa_outbox,
                  todo, cur, dry_run, loc, nticks, quiet, startWf, startCnt, sendVars >>

P2Check(t) ==
  /\ pc[t] = "p2_check"
  /\ pc' = [pc EXCEPT ![t] =
              IF ~wa_outbox_sent(cur[t], "size_confirm")
              THEN "p2_send" ELSE "p2_update"]
  /\ UNCHANGED << storeVars, todo, cur, dry_run, loc, nticks, quiet, startWf, startCnt,
                  sendVars >>

P2Send(t) ==
  /\ pc[t] = "p2_send"
  /\ SendStep(t, "size_confirm", loc[t].rec_size, "p2_update")
  /\ UNCHANGED << workflows, customers, wa_inbox, events_log,
                  size_recommendations, todo, cur, dry_run, loc, nticks,
                  quiet, startWf, startCnt, lastSend, ncalls, waba, call,
                  label, handed, hook >>

P2Update(t) ==
  /\ pc[t] = "p2_update"
  /\ update_workflow_state(cur[t], STATE_WAITING_CONFIRM)
  /\ pc' = [pc EXCEPT ![t] = "p2"]
  /\ cur' = [cur EXCEPT ![t] = NoOrder]
  /\ loc' = [loc EXCEPT ![t] = NoLoc]
  /\ UNCHANGED << customers, wa_inbox, events_log, wa_outbox,
                  size_recommendations, todo, dry_run, nticks,
                  quiet, startWf, startCnt, sendVars >>

\* End of loop 2 and the SELECT of the WAITING_CONFIRM orders.
P2Done(t) ==
  /\ pc[t] = "p2"
  /\ todo[t] = {}
  /\ todo' = [todo EXCEPT ![t] =
                {o \in Orders : workflows[o] = STATE_WAITING_CONFIRM}]
  /\ pc' = [pc EXCEPT ![t] = "p3"]
  /\ UNCHANGED << storeVars, cur, dry_run, loc, nticks, quiet, startWf, startCnt, sendVars >>

\* 3) WAITING_CONFIRM: phone lookup and the scan for the latest yes/no.
P3Next(t) ==
  /\ pc[t] = "p3"
  /\ \E o \in todo[t] :
       /\ todo' = [todo EXCEPT ![t] = @ \ {o}]
       /\ LET phone == get_customer_phone(o)
              conf == IF phone = NoPhone THEN NoConf
                      ELSE find_latest_confirmation(phone)
          IN  IF conf = "yes"
              THEN /\ cur' = [cur EXCEPT ![t] = o]
                   /\ pc' = [pc EXCEPT ![t] = "p3_yes"]
              ELSE IF conf = "no"
              THEN /\ cur' = [cur EXCEPT ![t] = o]
                   /\ pc' = [pc EXCEPT ![t] = "p3_check"]
              ELSE UNCHANGED << pc, cur >>
  /\ UNCHANGED << storeVars, dry_run, loc, nticks, quiet, startWf, startCnt, sendVars >>

\* Mutant: the row of the order that was inserted first.
LatestReco_first(order_id) ==
  IF RecoIdx(order_id) = {} THEN {}
  ELSE {size_recommendations[Min(RecoIdx(order_id))]}

\* SELECT recommended_size, height, weight ... ORDER BY created_at DESC
\* LIMIT 1: a row of the order with the greatest created_at; which one of
\* several rows of the same second is returned is not specified.
LatestReco(order_id) ==
  {size_recommendations[i] : i \in
     {i \in RecoIdx(order_id) :
        \A j \in RecoIdx(order_id) :
           size_recommendations[j].created_at <= size_recommendations[i].created_at}}

P3Yes(t) ==
  /\ pc[t] = "p3_yes"
  /\ IF LatestReco(cur[t]) = {}
     THEN /\ pc' = [pc EXCEPT ![t] = "p3_confirm"]
          /\ UNCHANGED loc
     ELSE \E row \in LatestReco(cur[t]) :
            /\ loc' = [loc EXCEPT ![t] =
                         [height |-> Max2(row.height, 0),
                          weight |-> Max2(row.weight, 0),
                          rec_size |-> row.recommended_size,
                          confidence |-> Full20]]
            /\ pc' = [pc EXCEPT ![t] = "p3_final"]
  /\ UNCHANGED << storeVars, todo, cur, dry_run, nticks, quiet, startWf, startCnt, sendVars >>

\* Set final_size from latest reco: a new row with final_size = rec_size.
P3Final(t) ==
  /\ pc[t] = "p3_final"
  /\ upsert_size_reco(cur[t], loc[t].rec_size, loc[t].confidence,
                      loc[t].height, loc[t].weight, loc[t].rec_size)
  /\ pc' = [pc EXCEPT ![t] = "p3_confirm"]
  /\ UNCHANGED << workflows, customers, wa_inbox, events_log, wa_outbox,
                  todo, cur, dry_run, loc, nticks, quiet, startWf, startCnt, sendVars >>

P3Confirm(t) ==
  /\ pc[t] = "p3_confirm"
  /\ update_workflow_state(cur[t], STATE_CONFIRMED)
  /\ pc' = [pc EXCEPT ![t] = "p3"]
  /\ cur' = [cur EXCEPT ![t] = NoOrder]
  /\ loc' = [loc EXCEPT ![t] = NoLoc]
  /\ UNCHANGED << customers, wa_inbox, events_log, wa_outbox,
                  size_recommendations, todo, dry_run, nticks,
                  quiet, startWf, startCnt, sendVars >>

\* Ask again for measurements: the wa_outbox_sent check.
P3Check(t) ==
  /\ pc[t] = "p3_check"
  /\ pc' = [pc EXCEPT ![t] =
              IF ~wa_outbox_sent(cur[t], "size_check_again")
              THEN "p3_send" ELSE "p3_update"]
  /\ UNCHANGED << storeVars, todo, cur, dry_run, loc, nticks, quiet, startWf, startCnt,
                  sendVars >>

P3Send(t) ==
  /\ pc[t] = "p3_send"
  /\ SendStep(t, "size_check_again", NoSize, "p3_update")
  /\ UNCHANGED << workflows, customers, wa_inbox, events_log,
                  size_recommendations, todo, cur, dry_run, loc, nticks,
                  quiet, startWf, startCnt, lastSend, ncalls, waba, call,
                  label, handed, hook >>

P3Update(t) ==
  /\ pc[t] = "p3_update"
  /\ update_workflow_state(cur[t], STATE_WAITING_SIZE_INFO)
  /\ pc' = [pc EXCEPT ![t] = "p3"]
  /\ cur' = [cur EXCEPT ![t] = NoOrder]
  /\ loc' = [loc EXCEPT ![t] = NoLoc]
  /\ UNCHANGED << customers, wa_inbox, events_log, wa_outbox,
                  size_recommendations, todo, dry_run, nticks,
                  quiet, startWf, startCnt, sendVars >>

\* End of loop 3: process_once has run through.
P3Done(t) ==
  /\ pc[t] = "p3"
  /\ todo[t] = {}
  /\ pc' = [pc EXCEPT ![t] = "done"]
  /\ UNCHANGED << storeVars, todo, cur, dry_run, loc, nticks, quiet, startWf, startCnt,
                  sendVars >>

\* process_once returns its counts.
TickReturn(t) ==
  /\ pc[t] = "done"
  /\ pc' = [pc EXCEPT ![t] = "idle"]
  /\ cur' = [cur EXCEPT ![t] = NoOrder]
  /\ loc' = [loc EXCEPT ![t] = NoLoc]
  /\ dry_run' = [dry_run EXCEPT ![t] = TRUE]
  /\ startWf' = workflows
  /\ startCnt' = RowCounts
  /\ quiet' = IF quiet.mode = "none" THEN quiet
              ELSE [mode |-> "set", wf |-> workflows, n |-> Len(wa_outbox)]
  /\ UNCHANGED << storeVars, todo, nticks, sendVars >>

process_once(t) ==
  \/ TickStart(t)
  \/ P1Next(t) \/ P1Send(t) \/ P1Update(t) \/ P1Done(t)
  \/ P2Next(t) \/ P2Reco(t) \/ P2Check(t) \/ P2Send(t) \/ P2Update(t) \/ P2Done(t)
  \/ P3Next(t) \/ P3Yes(t) \/ P3Final(t) \/ P3Confirm(t) \/ P3Check(t)
  \/ P3Send(t) \/ P3Update(t) \/ P3Done(t)
  \/ TickReturn(t)

\* ---------------------------------------------------------------- webhook
InboxIds == {<< r.ts, r.from_phone >> : r \in wa_inbox}

\* wa_inbound: normalise, parse, and insert the wa_inbox row and the
\* events_log row in one transaction; both ids are timestamp:from, so a
\* second request with the same timestamp and sender violates the primary
\* key and stores nothing.
wa_inbound(from, ts, text) ==
  LET id == << ts, from >>
  IN  IF id \in InboxIds \/ id \in events_log
      THEN UNCHANGED << wa_inbox, events_log, quiet >>
      ELSE /\ wa_inbox' = wa_inbox \cup
                 {[ts |-> ts, from_phone |-> from, text |-> text,
                   parsed |-> ParsedOf[text]]}
           /\ events_log' = events_log \cup {id}
           /\ quiet' = NoQuiet

Webhook(maxTs) ==
  /\ \E from \in Phones, ts \in 1..maxTs, text \in InboundTexts :
       wa_inbound(from, ts, text)
  /\ UNCHANGED << workflows, customers, wa_outbox, size_recommendations,
                  tickVars, sendVars >>

\* No request has been answered.
NoRequest == [from |-> NoPhone, ts |-> 0, text |-> << >>, status |-> 0]

\* A request to /wa/inbound and its answer: 200 when the two rows were
\* committed, 500 when an insert raised and the transaction was rolled back.
WebhookRequest ==
  /\ \E from \in Phones, ts \in 1..MaxTs, text \in InboundTexts :
       /\ wa_inbound(from, ts, text)
       /\ hook' = [from |-> from, ts |-> ts, text |-> text,
                   status |-> IF << ts, from >> \in InboxIds
                                   \/ << ts, from >> \in events_log
                              THEN 500 ELSE 200]
  /\ UNCHANGED << workflows, customers, wa_outbox, size_recommendations,
                  tickVars, lastSend, ncalls, waba, call, label, handed,
                  proposal >>

\* ------------------------------------------------- runs that may be killed
\* send_message up to the insert of its row: the dry-run artifact is
\* written or the vendor is called, and the row is still to be inserted.
SendRequest(t) ==
  /\ pc[t] \in {"p1_send", "p2_send", "p3_send"}
  /\ \E env \in Envs :
       LET template == IF pc[t] = "p1_send" THEN "size_check"
                       ELSE IF pc[t] = "p2_send" THEN "size_confirm"
                       ELSE "size_check_again"
           size == IF pc[t] = "p2_send" THEN loc[t].rec_size ELSE NoSize
           r == send_message(get_customer_phone(cur[t]), template, size,
                             dry_run[t], cur[t], env)
       IN  /\ lastSend' = [order_id |-> cur[t], template |-> template,
                           dry |-> dry_run[t], env |-> env,
                           status |-> r.status, rows |-> r.rows,
                           requests |-> r.requests, raised |-> r.raised]
           /\ handed' = IF dry_run[t] \/ r.requests > 0
                         THEN Append(handed, [order_id |-> cur[t],
                                              template |-> template])
                         ELSE handed
  /\ pc' = [pc EXCEPT ![t] = IF pc[t] = "p1_send" THEN "p1_insert"
                             ELSE IF pc[t] = "p2_send" THEN "p2_insert"
                             ELSE "p3_insert"]
  /\ UNCHANGED << storeVars, todo, cur, dry_run, loc, nticks, quiet, startWf,
                  startCnt, ncalls, waba, call, label, proposal, hook >>

\* _insert_wa_outbox of the call in progress; send_message returns.
SendInsert(t) ==
  /\ pc[t] \in {"p1_insert", "p2_insert", "p3_insert"}
  /\ wa_outbox' = wa_outbox \o lastSend.rows
  /\ proposal' = Proposed(lastSend.order_id, lastSend.template, lastSend.rows)
  /\ pc' = [pc EXCEPT ![t] = IF pc[t] = "p1_insert" THEN "p1_update"
                             ELSE IF pc[t] = "p2_insert" THEN "p2_update"
                             ELSE "p3_update"]
  /\ UNCHANGED << workflows, customers, wa_inbox, events_log,
                  size_recommendations, todo, cur, dry_run, loc, nticks,
                  quiet, startWf, startCnt, lastSend, ncalls, waba, call,
                  label, handed, hook >>

\* The process is killed: its locals are lost, the store keeps what was
\* committed.
Crash(t) ==
  /\ pc[t] # "idle"
  /\ pc' = [pc EXCEPT ![t] = "idle"]
  /\ todo' = [todo EXCEPT ![t] = {}]
  /\ cur' = [cur EXCEPT ![t] = NoOrder]
  /\ loc' = [loc EXCEPT ![t] = NoLoc]
  /\ dry_run' = [dry_run EXCEPT ![t] = TRUE]
  /\ UNCHANGED << storeVars, nticks, quiet, startWf, startCnt, sendVars >>

\* process_once with send_message in two steps.
process_once_steps(t) ==
  \/ TickStart(t)
  \/ P1Next(t) \/ P1Update(t) \/ P1Done(t)
  \/ P2Next(t) \/ P2Reco(t) \/ P2Check(t) \/ P2Update(t) \/ P2Done(t)
  \/ P3Next(t) \/ P3Yes(t) \/ P3Final(t) \/ P3Confirm(t) \/ P3Check(t)
  \/ P3Update(t) \/ P3Done(t)
  \/ SendRequest(t) \/ SendInsert(t)
  \/ TickReturn(t)

\* ------------------------------------------------------ engine command line
\* wa_inbox.id as text: timestamp ":" from.
InboxIdText == [p \in Phones |-> << "1:p1", "2:p1", "3:p1", "4:p1" >>]

\* The heights and weights --height and --weight are given.
EngineInputs == { << 175, 80 >>, << 185, 95 >> }

\* _extract_hw: the keys of parsed_json first, the text where a key is
\* missing.
_extract_hw(text, parsed) ==
  [h |-> IF parsed.height_cm # Absent THEN parsed.height_cm
         ELSE UnitSearch(text, HeightUnits),
   w |-> IF parsed.weight_kg # Absent THEN parsed.weight_kg
         ELSE UnitSearch(text, WeightUnits)]

\* _upsert_recommendation on a table: nothing when the order id has a row,
\* else a row of (order_id, height, weight, final_size); the columns the
\* statement does not name are NULL.
_upsert_recommendation(table, order_id, height, weight, final_size) ==
  IF \E i \in 1..Len(table) : table[i].order_id = order_id
  THEN table
  ELSE Append(table,
              [order_id |-> order_id, recommended_size |-> NoSize,
               confidence |-> 0, height |-> height, weight |-> weight,
               final_size |-> final_size, created_at |-> NoTime])

\* --order-id O --height H --weight W
run_single ==
  /\ ncalls < MaxCalls
  /\ ncalls' = ncalls + 1
  /\ \E order_id \in Orders, hw \in EngineInputs :
       LET rec == recommend_size(hw[1], hw[2], "Men", "CL", Absent)
       IN  size_recommendations' =
             _upsert_recommendation(size_recommendations, order_id,
                                    hw[1], hw[2], rec.recommended_size)
  /\ UNCHANGED << workflows, customers, wa_inbox, events_log, wa_outbox,
                  tickVars, quiet, lastSend, waba, call, label, handed, proposal, hook >>

\* The loop of run_scan_inbox over the rows still to visit, newest first.
RECURSIVE ScanRows(_, _)
ScanRows(rows, table) ==
  IF rows = {} THEN table
  ELSE LET row == CHOOSE r \in rows :
                     \A q \in rows : q.ts <= r.ts
           hw == _extract_hw(row.text, row.parsed)
           use_order_id == InboxIdText[row.from_phone][row.ts]
           rec == recommend_size(hw.h, hw.w, "Men", "CL", Absent)
       IN  ScanRows(rows \ {row},
                    IF hw.h = Absent \/ hw.w = Absent THEN table
                    ELSE _upsert_recommendation(table, use_order_id, hw.h, hw.w,
                                                rec.recommended_size))

\* --scan-inbox
run_scan_inbox ==
  /\ ncalls < MaxCalls
  /\ ncalls' = ncalls + 1
  /\ size_recommendations' = ScanRows(wa_inbox, size_recommendations)
  /\ UNCHANGED << workflows, customers, wa_inbox, events_log, wa_outbox,
                  tickVars, quiet, lastSend, waba, call, label, handed, proposal, hook >>

\* -------------------------------------------------- direct dispatcher calls
NoEnv == [vendor |-> "none", creds |-> FALSE, http |-> "none"]
NoSend == [order_id |-> NoOrder, template |-> "none", dry |-> FALSE,
           env |-> NoEnv, status |-> "none", rows |-> << >>,
           requests |-> 0, raised |-> FALSE]

\* A call of send_message(to, text, template_id, variables, dry_run, order_id).
SendMessageCall ==
  /\ ncalls < MaxCalls
  /\ waba.pc = "idle"
  /\ \E o \in {"o1"}, tpl \in Templates, dry \in BOOLEAN, env \in Envs :
       LET r == send_message(get_customer_phone(o), tpl, NoSize, dry, o, env)
       IN  /\ wa_outbox' = wa_outbox \o r.rows
           /\ lastSend' = [order_id |-> o, template |-> tpl, dry |-> dry,
                           env |-> env,
                           status |-> r.status, rows |-> r.rows,
                           requests |-> r.requests, raised |-> r.raised]
  /\ ncalls' = ncalls + 1
  /\ UNCHANGED << workflows, customers, wa_inbox, events_log,
                  size_recommendations, tickVars, quiet, waba, call, label, handed, proposal, hook >>

\* ------------------------------------------------------------ WABA client
\* stop_after_attempt(5)
StopAfterAttempt == 5

\* What one execution of _request_json ends with: a 2xx answer, or an
\* exception [type, status_code, error_code, error_subcode].
WabaOk == [type |-> "ok", status_code |-> 200, error_code |-> 0,
           error_subcode |-> 0]
WabaErr(type, sc, code) ==
  [type |-> type, status_code |-> sc, error_code |-> code, error_subcode |-> 0]
WabaSub(sc, code, sub) ==
  [type |-> "WABAApiError", status_code |-> sc, error_code |-> code,
   error_subcode |-> sub]
WabaAnswers ==
  { WabaOk,
    WabaErr("TimeoutException", 0, 0),
    WabaErr("ConnectError", 0, 0),
    WabaErr("WABAApiError", 429, 0),
    WabaErr("WABAApiError", 500, 0),
    WabaErr("WABAApiError", 400, 4),
    WabaErr("WABAApiError", 400, 470),
    WabaErr("WABAApiError", 400, 100) }
\* raised before any request when the token is missing
MissingToken == WabaErr("WABAApiError", 401, 0)

\* Mutant: every exception is retried.
_is_retryable_always(exc) == TRUE

_is_retryable(exc) ==
  IF exc.type = "TimeoutException" THEN TRUE
  ELSE IF exc.type = "HTTPStatusError"
  THEN exc.status_code = 429 \/ (500 <= exc.status_code /\ exc.status_code < 600)
  ELSE IF exc.type = "WABAApiError"
  THEN IF exc.status_code = 429 THEN TRUE
       ELSE IF exc.error_code \in {4} THEN TRUE
       ELSE 500 <= exc.status_code /\ exc.status_code < 600
  ELSE FALSE

NoWaba == [pc |-> "idle", token |-> FALSE, attempts |-> 0, requests |-> 0,
           last |-> WabaOk]

\* send_text / send_template / send_document: one call of _request_json
\* under @retry.
WabaCall ==
  /\ waba.pc = "idle"
  /\ ncalls < MaxCalls
  /\ ncalls' = ncalls + 1
  /\ \E token \in BOOLEAN :
       waba' = [NoWaba EXCEPT !.pc = "running", !.token = token]
  /\ UNCHANGED << storeVars, tickVars, quiet, lastSend, call, label, handed, proposal, hook >>

\* One execution of the body of _request_json and tenacity's decision.
WabaAttempt ==
  /\ waba.pc = "running"
  /\ \E ans \in IF waba.token THEN WabaAnswers ELSE {MissingToken} :
       LET n == waba.attempts + 1
           again == /\ ans.type # "ok"
                    /\ _is_retryable(ans)
                    /\ n < StopAfterAttempt
       IN  waba' = [waba EXCEPT
                      !.attempts = n,
                      !.requests = IF waba.token THEN @ + 1 ELSE @,
                      !.last = ans,
                      !.pc = IF again THEN "running"
                             ELSE IF ans.type = "ok" THEN "returned"
                             ELSE "raised"]
  /\ UNCHANGED << storeVars, tickVars, quiet, lastSend, ncalls, call, label, handed, proposal, hook >>

\* The caller goes on after the call returned or raised.
WabaEnd ==
  /\ waba.pc \in {"returned", "raised"}
  /\ waba' = NoWaba
  /\ UNCHANGED << storeVars, tickVars, quiet, lastSend, ncalls, call, label, handed, proposal, hook >>

\* ----------------------------------------------------------- label sender
is_session_window_error(exc) ==
  /\ exc.type = "WABAApiError"
  /\ \/ exc.error_code \in {470}
     \/ exc.error_subcode \in {2018065, 2018007}

\* What a client call (upload_media, send_document, send_template) ends
\* with once its retry loop is over: it returns, or it raises its last error.
LabelAnswers ==
  { WabaOk,
    WabaErr("WABAApiError", 400, 470),
    WabaSub(400, 100, 2018065),
    WabaErr("WABAApiError", 400, 100),
    WabaErr("TimeoutException", 0, 0) }

NoLabel == [sent_log |-> << >>, calls |-> << >>]

file_already_sent(to, file) ==
  \E i \in 1..Len(label.sent_log) :
     /\ label.sent_log[i].to = to
     /\ label.sent_log[i].file = file
     /\ label.sent_log[i].status = "sent"

\* The client calls of a try block in order, up to the first that raises:
\* a sequence of [op, ans].
RECURSIVE TryCalls(_, _)
TryCalls(ops, answers) ==
  IF ops = << >> THEN << >>
  ELSE LET c == [op |-> Head(ops), ans |-> Head(answers)]
       IN  IF c.ans.type = "ok"
           THEN << c >> \o TryCalls(Tail(ops), Tail(answers))
           ELSE << c >>

\* Whether a try block ended with an exception.
Raised(calls) == calls # << >> /\ calls[Len(calls)].ans.type # "ok"

\* One iteration of the loop of main over a recipient and a PDF: the
\* document, on a session window error the template and the document once
\* more, and the row of the log.
SendLabel ==
  /\ ncalls < MaxCalls
  /\ waba.pc = "idle"
  /\ ncalls' = ncalls + 1
  /\ \E to \in {"p1"}, file \in {"f1"} :
       IF file_already_sent(to, file)
       THEN label' = [label EXCEPT !.calls = << >>]
       ELSE \E answers \in [1..5 -> LabelAnswers] :
              LET first == TryCalls(<< "upload_media", "send_document" >>,
                                    SubSeq(answers, 1, 2))
                  e == first[Len(first)].ans
                  again == IF Raised(first) /\ is_session_window_error(e)
                           THEN TryCalls(<< "send_template", "upload_media",
                                            "send_document" >>,
                                         SubSeq(answers, 3, 5))
                           ELSE << >>
                  calls == first \o again
                  last == calls[Len(calls)].ans
                  row == [to |-> to, file |-> file,
                          status |-> IF Raised(calls) THEN "error" ELSE "sent",
                          error_code |-> IF Raised(calls) /\ last.type = "WABAApiError"
                                         THEN last.error_code ELSE 0]
              IN  label' = [sent_log |-> Append(label.sent_log, row),
                            calls |-> calls]
  /\ UNCHANGED << storeVars, tickVars, quiet, lastSend, waba, call, handed, proposal, hook >>

\* ------------------------------------------------------------------- specs
NoCall == [fn |-> "none"]

\* customers.id is the order id; an order may have no phone, and two orders
\* may belong to the same customer.
CustomerMaps ==
  {c \in [Orders -> Phones \cup {NoPhone}] : c["o1"] # NoPhone /\ c["o2"] = NoPhone}


Init ==
  /\ workflows = [o \in Orders |-> STATE_NEW]
  /\ customers \in CustomerMaps
  /\ wa_inbox = {}
  /\ events_log = {}
  /\ wa_outbox = << >>
  /\ size_recommendations = << >>
  /\ pc = [t \in Ticks |-> "idle"]
  /\ todo = [t \in Ticks |-> {}]
  /\ cur = [t \in Ticks |-> NoOrder]
  /\ dry_run = [t \in Ticks |-> TRUE]
  /\ loc = [t \in Ticks |-> NoLoc]
  /\ nticks = 0
  /\ quiet = NoQuiet
  /\ startWf = [o \in Orders |-> STATE_NEW]
  /\ startCnt = [o \in Orders |-> [out |-> 0, reco |-> 0]]
  /\ call = NoCall
  /\ label = NoLabel
  /\ handed = << >>
  /\ proposal = NoProposal
  /\ hook = NoRequest
  /\ lastSend = NoSend
  /\ ncalls = 0
  /\ waba = NoWaba

\* Sequential runs of process_once, with the webhook writing at any time.
Next ==
  \/ \E t \in SeqTicks : process_once(t)
  \/ Webhook(MaxTs)

Spec == Init /\ [][Next]_vars

\* Sequential runs that keep being run: a run that can take a step
\* eventually takes it, and a run that may start eventually starts.
SpecLive == Init /\ [][Next]_vars /\ WF_vars(\E t \in SeqTicks : process_once(t))

\* Overlapping runs of process_once (overlapping cron runs).
NextConc ==
  \/ \E t \in Ticks : process_once(t)
  \/ Webhook(MaxTsConc)

SpecConc == Init /\ [][NextConc]_vars

\* Sequential runs that may be killed at any point and are run again.
NextCrash ==
  \/ \E t \in SeqTicks : process_once_steps(t)
  \/ \E t \in SeqTicks : Crash(t)
  \/ Webhook(MaxTsConc)

SpecCrash == Init /\ [][NextCrash]_vars

\* Sequential runs, the webhook, and the engine's command line run by hand.
NextEngine ==
  \/ \E t \in SeqTicks : process_once(t)
  \/ Webhook(MaxTsConc)
  \/ run_single
  \/ run_scan_inbox

SpecEngine == Init /\ [][NextEngine]_vars

\* Requests to the webhook alone.
SpecHook == Init /\ [][WebhookRequest]_vars

\* The two dispatchers called on their own.
NextSend == SendMessageCall \/ WabaCall \/ WabaAttempt \/ WabaEnd \/ SendLabel

SpecSend == Init /\ [][NextSend]_vars

\* ---------------------------------------------------- pure function calls
\* Arguments of recommend_size.
RecoHeights == 150..200
RecoWeights == 45..130
NoRec == [recommended_size |-> NoSize, confidence |-> 0,
          alternative_sizes |-> << >>]
KidsHeights == 60..180
RecoInputs ==
  {[fn |-> "recommend_size", height_cm |-> h, weight_kg |-> w, gender |-> g,
    product_type |-> p, age |-> Absent, done |-> FALSE, out |-> NoRec] :
      h \in RecoHeights, w \in RecoWeights, g \in {"Men", "Women", "Unisex"},
      p \in {"CL", "XX"}}
  \cup
  {[fn |-> "recommend_size", height_cm |-> h, weight_kg |-> 30, gender |-> "Kids",
    product_type |-> "CL", age |-> a, done |-> FALSE, out |-> NoRec] :
      h \in KidsHeights, a \in {Absent, 0, 2, 5, 8, 12}}

\* Arguments of enrich_parsed: the texts f"{h} cm {w} kg" (Russian unit
\* words) and sentences of one to three words.
ParseHeights == 100..220
ParseWeights == 30..200
Vocabulary ==
  { RuDa, << "RU_D", "ru_a" >>, << "kz_i", "kz_ae" >>, << "kz_i", "ru_a" >>,
    << "y", "e", "s" >>, << "y" >>,
    RuNet, << "ru_zh", "ru_o", "kz_q" >>, << "j", "o", "q" >>,
    << "N", "O" >>, << "n" >>,
    << "ru_n", "ru_e" >>, << "o", "k" >>, << "n", "o", "p", "e" >> }
Sentences ==
  {<< a >> : a \in Vocabulary}
    \cup {<< a, b >> : a \in Vocabulary, b \in Vocabulary}
    \cup {<< a, b, c >> : a \in Vocabulary, b \in {RuDa, RuNet, << "o", "k" >>},
                          c \in Vocabulary}
\* The words of a sentence separated by ", ".
RECURSIVE JoinWords(_)
JoinWords(ws) ==
  IF Len(ws) = 1 THEN ws[1]
  ELSE ws[1] \o << ",", " " >> \o JoinWords(Tail(ws))
NoParsed == [height_cm |-> Absent, weight_kg |-> Absent, confirmation |-> NoConf]
ParseInputs ==
  {[fn |-> "enrich_parsed", h |-> h, w |-> w, words |-> << >>,
    text |-> FormatHW(h, w), done |-> FALSE, out |-> NoParsed] :
      h \in ParseHeights, w \in ParseWeights}
  \cup
  {[fn |-> "enrich_parsed", h |-> Absent, w |-> Absent, words |-> ws,
    text |-> JoinWords(ws), done |-> FALSE, out |-> NoParsed] :
      ws \in Sentences}

InitFn ==
  /\ workflows = [o \in Orders |-> STATE_NEW]
  /\ customers \in CustomerMaps
  /\ wa_inbox = {}
  /\ events_log = {}
  /\ wa_outbox = << >>
  /\ size_recommendations = << >>
  /\ pc = [t \in Ticks |-> "idle"]
  /\ todo = [t \in Ticks |-> {}]
  /\ cur = [t \in Ticks |-> NoOrder]
  /\ dry_run = [t \in Ticks |-> TRUE]
  /\ loc = [t \in Ticks |-> NoLoc]
  /\ nticks = 0
  /\ quiet = NoQuiet
  /\ startWf = [o \in Orders |-> STATE_NEW]
  /\ startCnt = [o \in Orders |-> [out |-> 0, reco |-> 0]]
  /\ lastSend = NoSend
  /\ ncalls = 0
  /\ waba = NoWaba
  /\ call \in RecoInputs \cup ParseInputs
  /\ label = NoLabel
  /\ handed = << >>
  /\ proposal = NoProposal
  /\ hook = NoRequest

\* SizeRecommendationEngine().recommend_size(...)
CallRecommendSize ==
  /\ call.fn = "recommend_size"
  /\ ~call.done
  /\ call' = [call EXCEPT !.done = TRUE,
                          !.out = recommend_size(call.height_cm, call.weight_kg,
                                                 call.gender, call.product_type,
                                                 call.age)]
  /\ UNCHANGED << storeVars, tickVars, quiet, lastSend, ncalls, waba, label, handed, proposal, hook >>

\* enrich_parsed(text)
CallEnrichParsed ==
  /\ call.fn = "enrich_parsed"
  /\ ~call.done
  /\ call' = [call EXCEPT !.done = TRUE, !.out = enrich_parsed(call.text)]
  /\ UNCHANGED << storeVars, tickVars, quiet, lastSend, ncalls, waba, label, handed, proposal, hook >>

NextFn == CallRecommendSize \/ CallEnrichParsed

SpecFn == InitFn /\ [][NextFn]_vars

\* ================================================================== claims
SentRows(order_id, template) ==
  {i \in 1..Len(wa_outbox) :
      /\ wa_outbox[i].order_id = order_id
      /\ wa_outbox[i].template = template
      /\ wa_outbox[i].status \in {"SENT", "DRY_RUN"}}

SnapshotRows(order_id) ==
  {i \in RecoIdx(order_id) : size_recommendations[i].final_size = NoSize}

\* C1: under sequential runs of process_once interleaved with webhook
\* inserts, every (order_id, template) has at most one outbox row with
\* status SENT or DRY_RUN.
C1_AtMostOneSentSequential ==
  \A o \in Orders, tpl \in Templates : Cardinality(SentRows(o, tpl)) <= 1

\* C1 witness: an order went through WAITING_SIZE_INFO -> WAITING_CONFIRM a
\* second time (two snapshots) and still has one delivered size_confirm row.
C1_Witness ==
  \E o \in Orders :
     /\ workflows[o] = STATE_WAITING_CONFIRM
     /\ Cardinality(SnapshotRows(o)) >= 2
     /\ Cardinality(SentRows(o, "size_confirm")) = 1

\* C2: the same bound holds when two runs of process_once overlap and
\* interleave between the wa_outbox_sent check and the insert of the row.
C2_AtMostOneSentConcurrent ==
  \A tpl \in Templates, o \in Orders :
     ~(\E i, j \in SentRows(o, tpl) : i # j)

StoreWhole(o) ==
  /\ workflows[o] = STATE_NEW => ~wa_outbox_sent(o, "size_check")
  /\ RecoIdx(o) # {} => wa_outbox_sent(o, "size_confirm")
  /\ RecoIdx(o) # SnapshotRows(o) => workflows[o] = STATE_CONFIRMED

\* C4: a run that is about to read the rows of an order never finds the
\* writes of a transition of that order committed in part.
C4_TransitionsAtomic ==
  \A u \in Ticks, o \in Orders :
     (pc[u] \in {"p1", "p2", "p3"} /\ o \in todo[u]) => StoreWhole(o)

\* C5: once an order is CONFIRMED its state never changes and no outbox row
\* is added for it, whatever the interleaving of runs and inbound messages.
C5_ConfirmedIsTerminal ==
  [][\A o \in Orders :
       workflows[o] = STATE_CONFIRMED =>
          /\ workflows'[o] = STATE_CONFIRMED
          /\ \A i \in 1..Len(wa_outbox') :
                wa_outbox'[i].order_id = o => i <= Len(wa_outbox)]_vars

\* C6: an ERROR row does not count as already sent: when the query that
\* guards a send finds a row, a SENT or DRY_RUN row exists.
C6_ErrorRowIsNotSent ==
  \A o \in Orders, tpl \in Templates :
     wa_outbox_sent(o, tpl) => SentRows(o, tpl) # {}

C9_DispatcherGuardsItself ==
  [][\A t \in Ticks :
       (/\ pc[t] \in {"p1_send", "p2_send", "p3_send"}
        /\ pc'[t] # pc[t]
        /\ SentRows(cur[t], CASE pc[t] = "p1_send" -> "size_check"
                              [] pc[t] = "p2_send" -> "size_confirm"
                              [] OTHER -> "size_check_again") # {})
       => wa_outbox' = wa_outbox]_vars

\* The newest inbound row of a phone.
LatestInbound(phone) ==
  {r \in wa_inbox : r.from_phone = phone /\
      \A q \in wa_inbox : q.from_phone = phone => q.ts <= r.ts}

\* C10: with no inbound message during the run, an order the run found in
\* WAITING_SIZE_INFO whose customer's newest message has both measurements
\* and a yes is in WAITING_CONFIRM when the run has finished.
C10_OnlyCurrentStateRuleApplies ==
  \A t \in SeqTicks, o \in Orders :
     (/\ pc[t] = "done"
      /\ quiet.mode # "none"
      /\ startWf[o] = STATE_WAITING_SIZE_INFO
      /\ \E r \in LatestInbound(get_customer_phone(o)) :
            HasMeasurements(r) /\ r.parsed.confirmation = "yes")
     => workflows[o] = STATE_WAITING_CONFIRM

\* C17: recommend_size(height_cm=175, weight_kg=80, gender='Men',
\* product_type='CL') returns size L with a confidence above 0.6 (12
\* twentieths).
C17_Men175x80IsL ==
  (/\ call.fn = "recommend_size" /\ call.done
   /\ call.height_cm = 175 /\ call.weight_kg = 80
   /\ call.gender = "Men" /\ call.product_type = "CL")
  => (call.out.recommended_size = "L" /\ call.out.confidence > 12)

\* C18: for every h in 100..220 and w in 30..200, enrich_parsed of the text
\* '<h> cm <w> kg' (Russian unit words) yields height_cm = h and
\* weight_kg = w.
C18_ParserRoundTrip ==
  (/\ call.fn = "enrich_parsed" /\ call.done
   /\ call.h \in 100..220 /\ call.w \in 30..200
   /\ call.text = FormatHW(call.h, call.w))
  => (call.out.height_cm = call.h /\ call.out.weight_kg = call.w)

\* C18 witness: a three-digit height and a two-digit weight were parsed.
C18_Witness ==
  /\ call.fn = "enrich_parsed" /\ call.done
  /\ call.h = 220 /\ call.w = 30
  /\ call.text = << "2", "2", "0", " ", "ru_s", "ru_m", " ",
                    "3", "0", " ", "ru_k", "ru_g" >>
  /\ call.out.height_cm = 220

\* The answer the first word of a sentence that belongs to yes or no gives.
RECURSIVE FirstDecides(_, _, _)
FirstDecides(ws, yes, no) ==
  IF Len(ws) = 0 THEN NoConf
  ELSE IF LowerText(ws[1]) \in yes THEN "yes"
  ELSE IF LowerText(ws[1]) \in no THEN "no"
  ELSE FirstDecides(Tail(ws), yes, no)

\* C19 as stated: the first token of {da, ia, yes, y} or {net, zhoq, no, n}
\* (Russian and Kazakh words in their own script) decides, and a text with
\* no token of these sets has no confirmation.
C19_FirstTokenOfClaimedSets ==
  (call.fn = "enrich_parsed" /\ call.done /\ call.words # << >>)
  => call.out.confirmation =
       FirstDecides(call.words,
                    { RuDa, << "kz_i", "kz_ae" >>, << "y", "e", "s" >>, << "y" >> },
                    { RuNet, << "ru_zh", "ru_o", "kz_q" >>, << "n", "o" >>, << "n" >> })

\* C19 amended: the sets also hold the transliterations "ia" (Cyrillic i, a)
\* and "joq"; the first token, lower-cased, of either set decides, and a
\* text with no such token has no confirmation.
C19_FirstTokenDecides ==
  (call.fn = "enrich_parsed" /\ call.done /\ call.words # << >>)
  => call.out.confirmation =
       FirstDecides(call.words,
                    { RuDa, << "kz_i", "kz_ae" >>, << "kz_i", "ru_a" >>,
                      << "y", "e", "s" >>, << "y" >> },
                    { RuNet, << "ru_zh", "ru_o", "kz_q" >>, << "j", "o", "q" >>,
                      << "n", "o" >>, << "n" >> })

\* C19 witness: a sentence with a no before a yes was parsed as no.
C19_Witness ==
  /\ call.fn = "enrich_parsed" /\ call.done
  /\ call.words = << << "o", "k" >>, RuNet, RuDa >>
  /\ call.out.confirmation = "no"

\* Run t decides in this step about the WAITING_SIZE_INFO order o.
P2Decides(t, o) ==
  /\ pc[t] = "p2"
  /\ pc'[t] \in {"p2", "p2_reco"}
  /\ o \in todo[t] /\ o \notin todo'[t]

\* Run t inserts in this step the snapshot it computed.
P2Inserts(t) == pc[t] = "p2_reco" /\ pc'[t] = "p2_check"

\* The snapshot written is the recommendation for the values the run read.
SnapshotFollowsRead(t) ==
  LET row == size_recommendations'[Len(size_recommendations')]
  IN  /\ Len(size_recommendations') = Len(size_recommendations) + 1
      /\ row.order_id = cur[t]
      /\ row.height = loc[t].height /\ row.weight = loc[t].weight
      /\ row.recommended_size =
           recommend_adult_size(row.height, row.weight, MenChart).recommended_size
      /\ row.final_size = NoSize

\* Only the end of the phase 2 loop body moves an order from
\* WAITING_SIZE_INFO to WAITING_CONFIRM.
OnlyPhase2Proposes ==
  \A o \in Orders :
     (workflows[o] = STATE_WAITING_SIZE_INFO /\
      workflows'[o] = STATE_WAITING_CONFIRM)
     => \E t \in SeqTicks : pc[t] = "p2_update" /\ cur[t] = o

\* C11 as stated: a run takes a WAITING_SIZE_INFO order on to
\* WAITING_CONFIRM if and only if the newest inbound message of the phone
\* has both height_cm and weight_kg, and the snapshot is computed from the
\* values of that message.
C11_LatestMessageHasMeasurements ==
  [][\A t \in SeqTicks :
       /\ \A o \in Orders :
            P2Decides(t, o) =>
              LET newest == LatestInbound(get_customer_phone(o))
              IN  /\ pc'[t] = "p2_reco" <=> (\E r \in newest : HasMeasurements(r))
                  /\ pc'[t] = "p2_reco" =>
                       \E r \in newest :
                          /\ loc'[t].height = r.parsed.height_cm
                          /\ loc'[t].weight = r.parsed.weight_kg
       /\ P2Inserts(t) => SnapshotFollowsRead(t)
       /\ OnlyPhase2Proposes]_vars

\* C12: for a WAITING_CONFIRM order whose latest confirmation is yes, a run
\* appends one row whose final_size is the recommended_size of a row of the
\* order with the greatest created_at, leaves the earlier rows as they
\* were, and moves the order to CONFIRMED.
C12_YesCopiesLatestSize ==
  [][\A t \in SeqTicks :
       /\ (pc[t] = "p3" /\ pc'[t] = "p3_yes") =>
             /\ workflows[cur'[t]] = STATE_WAITING_CONFIRM
             /\ find_latest_confirmation(get_customer_phone(cur'[t])) = "yes"
       /\ (pc[t] = "p3_yes" /\ pc'[t] # "p3_yes") =>
             /\ RecoIdx(cur[t]) # {}
             /\ pc'[t] = "p3_final"
       /\ (pc[t] = "p3_final" /\ pc'[t] # "p3_final") =>
             LET n == Len(size_recommendations)
                 row == size_recommendations'[n + 1]
             IN  /\ Len(size_recommendations') = n + 1
                 /\ SubSeq(size_recommendations', 1, n) = size_recommendations
                 /\ row.order_id = cur[t]
                 /\ row.final_size # NoSize
                 /\ \E i \in RecoIdx(cur[t]) :
                       /\ \A j \in RecoIdx(cur[t]) :
                             size_recommendations[j].created_at
                               <= size_recommendations[i].created_at
                       /\ row.final_size = size_recommendations[i].recommended_size
                 /\ pc'[t] = "p3_confirm"
       /\ (pc[t] = "p3_confirm" /\ pc'[t] # "p3_confirm") =>
             workflows'[cur[t]] = STATE_CONFIRMED]_vars

\* C12 witness: an order was confirmed with the size of its second snapshot
\* while an earlier snapshot of another size exists.
C12_Witness ==
  \E o \in Orders :
     /\ workflows[o] = STATE_CONFIRMED
     /\ \E i, j, k \in RecoIdx(o) :
          /\ i < j /\ j < k
          /\ size_recommendations[i].recommended_size = "M"
          /\ size_recommendations[j].recommended_size = "2XL"
          /\ size_recommendations[i].created_at < size_recommendations[j].created_at
          /\ size_recommendations[k].final_size = "2XL"

\* The wa_outbox rows of an order that were added since the run started.
NewOutRows(o) ==
  LET mine == {i \in 1..Len(wa_outbox) : wa_outbox[i].order_id = o}
  IN  {i \in mine : Cardinality({j \in mine : j < i}) >= startCnt[o].out}

\* C14: a run that finds an order in WAITING_CONFIRM whose customer's latest
\* inbound text is "Net, ne podhodit" (Russian: no, it does not fit), with
\* no inbound message during the run, ends with the order in
\* WAITING_SIZE_INFO and exactly one new outbox row, of template
\* size_check_again.
C14_NoAsksAgainOnce ==
  \A t \in SeqTicks, o \in Orders :
     (/\ pc[t] = "done"
      /\ quiet.mode # "none"
      /\ startWf[o] = STATE_WAITING_CONFIRM
      /\ \E r \in LatestInbound(get_customer_phone(o)) :
            r.text = TextNetNePodhodit)
     => /\ workflows[o] = STATE_WAITING_SIZE_INFO
        /\ Cardinality(NewOutRows(o)) = 1
        /\ \A i \in NewOutRows(o) : wa_outbox[i].template = "size_check_again"

\* C14 witness: such a run has finished, its send having failed.
C14_Witness ==
  \E t \in SeqTicks, o \in Orders :
     /\ pc[t] = "done"
     /\ quiet.mode # "none"
     /\ startWf[o] = STATE_WAITING_CONFIRM
     /\ \E r \in LatestInbound(get_customer_phone(o)) : r.text = TextNetNePodhodit
     /\ workflows[o] = STATE_WAITING_SIZE_INFO
     /\ \E i \in NewOutRows(o) : wa_outbox[i].status = "ERROR"

\* No rule is enabled for order o in the store as it is.
NoRuleEnabled(o) ==
  LET phone == get_customer_phone(o)
      rows == {r \in wa_inbox : r.from_phone = phone}
  IN  \/ startWf[o] = STATE_NEW /\ phone = NoPhone
      \/ /\ startWf[o] = STATE_WAITING_SIZE_INFO
         /\ \A r \in rows : ~HasMeasurements(r)
      \/ /\ startWf[o] = STATE_WAITING_CONFIRM
         /\ \A r \in rows : r.parsed.confirmation = NoConf

\* C15: a run, with no inbound message during it, leaves an order for which
\* no rule is enabled as it found it: same workflow state, no new outbox
\* row, no new recommendation row.
C15_NoRuleNoChange ==
  \A t \in SeqTicks, o \in Orders :
     (pc[t] = "done" /\ quiet.mode # "none" /\ NoRuleEnabled(o))
     => /\ workflows[o] = startWf[o]
        /\ RowCounts[o] = startCnt[o]

\* C15 witness: a run has finished that found one order NEW without a phone,
\* and another in WAITING_CONFIRM with no yes or no in the inbox.
C15_Witness ==
  \E t \in SeqTicks :
     /\ pc[t] = "done" /\ quiet.mode # "none"
     /\ \E o \in Orders :
          startWf[o] = STATE_NEW /\ NoRuleEnabled(o) /\ workflows[o] = STATE_NEW
     /\ \E o \in Orders :
          /\ startWf[o] = STATE_WAITING_CONFIRM /\ NoRuleEnabled(o)
          /\ workflows[o] = STATE_WAITING_CONFIRM
          /\ startCnt[o].reco >= 1

\* The customer of order o has sent both measurements and then a yes that
\* no later message can supersede, and a run is still to start.
ReadyToConfirm(o) ==
  LET phone == get_customer_phone(o)
  IN  /\ phone # NoPhone
      /\ nticks < MaxTicks
      /\ \E r, y \in wa_inbox :
            /\ r.from_phone = phone /\ HasMeasurements(r)
            /\ y.from_phone = phone /\ y.parsed.confirmation = "yes"
            /\ r.ts <= y.ts
            /\ y.ts = MaxTs

\* C16: while runs keep being run, an order with a known phone whose
\* customer has sent both measurements and then a yes eventually is
\* CONFIRMED, whether the vendor sends succeed or fail.
C16_EventuallyConfirmed ==
  \A o \in Orders : ReadyToConfirm(o) ~> (workflows[o] = STATE_CONFIRMED)

\* C16 witness: an order was confirmed after measurements and a later yes
\* although every send for it failed.
C16_Witness ==
  \E o \in Orders :
     /\ workflows[o] = STATE_CONFIRMED
     /\ \E r, y \in wa_inbox :
           /\ r.from_phone = get_customer_phone(o) /\ HasMeasurements(r)
           /\ y.from_phone = get_customer_phone(o) /\ y.parsed.confirmation = "yes"
           /\ r.ts < y.ts
     /\ Len(wa_outbox) >= 2
     /\ \A i \in 1..Len(wa_outbox) : wa_outbox[i].status = "ERROR"

\* C13: a size_recommendations row with final_size set exists for an order
\* only if the order's workflow is CONFIRMED or a run is between the insert
\* of that row and the update of the workflow.
C13_FinalSizeOnlyAfterConfirmation ==
  \A i \in 1..Len(size_recommendations) :
     LET row == size_recommendations[i]
     IN  (row.final_size # NoSize /\ row.order_id \in Orders)
           => \/ workflows[row.order_id] = STATE_CONFIRMED
              \/ \E t \in Ticks : pc[t] = "p3_confirm" /\ cur[t] = row.order_id

\* The client calls of the last iteration of the label sender by name.
LabelOps == [i \in 1..Len(label.calls) |-> label.calls[i].op]

\* The label sender: after a session window error the template is sent, the
\* document is sent again at most once, and the row is an error row when
\* the last call failed; after any other error nothing more is called.
LabelSenderFallsBack ==
  label.calls # << >> =>
    LET first == CHOOSE i \in 1..Len(label.calls) :
                    \/ label.calls[i].ans.type # "ok"
                    \/ i = Len(label.calls)
        e == label.calls[first].ans
        rest == SubSeq(LabelOps, first + 1, Len(label.calls))
        row == label.sent_log[Len(label.sent_log)]
    IN  /\ (e.type # "ok" /\ is_session_window_error(e)) =>
              /\ rest # << >> /\ rest[1] = "send_template"
              /\ Cardinality({i \in 1..Len(rest) : rest[i] = "send_template"}) = 1
              /\ Cardinality({i \in 1..Len(rest) : rest[i] = "send_document"}) <= 1
        /\ (e.type # "ok" /\ ~is_session_window_error(e)) => rest = << >>
        /\ (row.status = "error") <=> Raised(label.calls)

\* C20: a send that fails with the session window error is followed by the
\* template and by one more send of the original, and a failure is recorded
\* when that fails; after any other error nothing more is sent. This is
\* stated for both dispatchers: the label sender and send_message.
C20_SessionWindowFallback ==
  /\ LabelSenderFallsBack
  /\ (/\ lastSend.order_id # NoOrder
      /\ ~lastSend.dry
      /\ lastSend.env.vendor \in {"twilio", "d360"} /\ lastSend.env.creds
      /\ lastSend.env.http = "session_window")
       => lastSend.requests >= 2

\* The label sender went through the whole fallback and the second send of
\* the document failed.
LabelFallbackFailed ==
  /\ Len(label.calls) = 5
  /\ is_session_window_error(label.calls[2].ans)
  /\ LabelOps = << "upload_media", "send_document", "send_template",
                   "upload_media", "send_document" >>
  /\ label.sent_log[Len(label.sent_log)].status = "error"

\* The moves of the workflow of an order.
WorkflowEdges ==
  { << STATE_NEW, STATE_WAITING_SIZE_INFO >>,
    << STATE_WAITING_SIZE_INFO, STATE_WAITING_CONFIRM >>,
    << STATE_WAITING_CONFIRM, STATE_CONFIRMED >>,
    << STATE_WAITING_CONFIRM, STATE_WAITING_SIZE_INFO >> }

MeasurementMessages(o) ==
  {r \in wa_inbox : r.from_phone = get_customer_phone(o) /\ HasMeasurements(r)}

NoMessages(o) ==
  {r \in wa_inbox : r.from_phone = get_customer_phone(o)
                       /\ r.parsed.confirmation = "no"}

\* C21: one message causes a move at most once. Every move from
\* WAITING_SIZE_INFO to WAITING_CONFIRM follows one snapshot row, so an order
\* has at most as many snapshot rows at such a move as its customer has sent
\* messages with measurements; and when the customer has sent a single no,
\* a move from WAITING_CONFIRM to WAITING_SIZE_INFO is the first one, the one
\* whose size_check_again row was inserted in the same run.
C21_OneMessageOneMove ==
  [][\A o \in Orders :
        /\ (workflows[o] = STATE_WAITING_SIZE_INFO
              /\ workflows'[o] = STATE_WAITING_CONFIRM)
             => Cardinality(SnapshotRows(o)) <= Cardinality(MeasurementMessages(o))
        /\ (workflows[o] = STATE_WAITING_CONFIRM
              /\ workflows'[o] = STATE_WAITING_SIZE_INFO
              /\ Cardinality(NoMessages(o)) = 1)
             => RowCounts[o].out > startCnt[o].out]_vars

\* C23: whatever the point at which runs are killed and run again, no
\* (order_id, template) is given to the vendor, or written as a dry-run
\* artifact, twice.
C23_CrashNeverResends ==
  \A i, j \in 1..Len(handed) : handed[i] = handed[j] => i = j

\* The chart recommend_size reads for a call.
ChartOf(gender) == IF gender = "Men" THEN MenChart ELSE WomenChart

AdultCallDone ==
  /\ call.fn = "recommend_size" /\ call.done
  /\ call.product_type = "CL" /\ call.gender \in {"Men", "Women"}

\* The entries of the chart that attain the greatest score for the call.
TopEntries ==
  LET chart == ChartOf(call.gender)
      score(i) == Score20(call.height_cm, call.weight_kg, chart[i])
  IN  {i \in 1..Len(chart) :
          \A j \in 1..Len(chart) : score(i) >= score(j)}

\* C24: for Men and Women, recommend_size returns the size of the first
\* chart entry that attains the greatest score, with that score as the
\* confidence; when every score is 0 it returns M with confidence 0.2.
C24_FirstEntryOfGreatestScore ==
  AdultCallDone =>
    LET chart == ChartOf(call.gender)
        top == Score20(call.height_cm, call.weight_kg, chart[Min(TopEntries)])
    IN  IF top = 0
        THEN call.out.recommended_size = "M" /\ call.out.confidence = Default20
        ELSE /\ call.out.recommended_size = chart[Min(TopEntries)][5]
             /\ call.out.confidence = top

\* Several entries of different sizes attain the greatest score, and the
\* size of the first of them was returned.
C24_Witness ==
  /\ AdultCallDone
  /\ \E i, j \in TopEntries :
        ChartOf(call.gender)[i][5] # ChartOf(call.gender)[j][5]
  /\ Score20(call.height_cm, call.weight_kg,
             ChartOf(call.gender)[Min(TopEntries)]) > 0
  /\ call.out.recommended_size = ChartOf(call.gender)[Min(TopEntries)][5]

\* Every score is 0 and the default answer was returned.
C24_DefaultWitness ==
  /\ AdultCallDone
  /\ Score20(call.height_cm, call.weight_kg,
             ChartOf(call.gender)[Min(TopEntries)]) = 0
  /\ call.out.recommended_size = "M"

\* C25: for Men and Women, when a best entry exists, alternative_sizes has at
\* most three entries, they are the sizes of the kept alternatives in
\* descending order of score, and every one of them comes from a chart entry
\* whose score is above 0.3.
C25_AlternativesAboveThreshold ==
  (AdultCallDone /\ Score20(call.height_cm, call.weight_kg,
                             ChartOf(call.gender)[Min(TopEntries)]) > 0) =>
    LET alts == adult_alternatives(call.height_cm, call.weight_kg,
                                   ChartOf(call.gender))
    IN  /\ Len(call.out.alternative_sizes) <= 3
        /\ call.out.alternative_sizes = [i \in 1..Len(alts) |-> alts[i][1]]
        /\ \A i, j \in 1..Len(alts) :
              i < j => ~FloatGreater(alts[j][2], alts[i][2])
        /\ \A i \in 1..Len(alts) : alts[i][2].t > AltThreshold20

\* A Kids call that was answered from the height alone: no age, or no entry
\* of the age and height matrix holds the age and the height.
KidsHeightOnlyDone ==
  /\ call.fn = "recommend_size" /\ call.done
  /\ call.product_type = "CL" /\ call.gender = "Kids"
  /\ \/ call.age = Absent
     \/ \A i \in 1..Len(KidsAgeHeightMatrix) :
           ~(/\ KidsAgeHeightMatrix[i][1] <= call.age
             /\ call.age <= KidsAgeHeightMatrix[i][2]
             /\ KidsAgeHeightMatrix[i][3] <= call.height_cm
             /\ call.height_cm <= KidsAgeHeightMatrix[i][4])

\* The distance of a height from the nearest range of height_sizes, 0 inside.
KidsRangeDistance(h) ==
  IF \E i \in 1..Len(KidsHeightSizes) :
        KidsHeightSizes[i][2] <= h /\ h <= KidsHeightSizes[i][3]
  THEN 0
  ELSE Min({Min2(Abs(h - KidsHeightSizes[i][2]), Abs(h - KidsHeightSizes[i][3])) :
              i \in 1..Len(KidsHeightSizes)})

\* The confidence of the answer from the height alone.
KidsHeightConfidence(h) == recommend_size(h, 30, "Kids", "CL", Absent).confidence

\* C30: for Kids answered from the height alone, the confidence does not
\* increase as the height moves away from the ranges, a height inside a range
\* gets a confidence at least that of any height outside every range, and no
\* such answer has a confidence above the 0.9 of an exact match.
C30_KidsHeightConfidenceOrdered ==
  KidsHeightOnlyDone =>
    /\ call.out.confidence <= KidsExact20
    /\ \A h \in KidsHeights :
          KidsRangeDistance(h) >= KidsRangeDistance(call.height_cm)
            => KidsHeightConfidence(h) <= call.out.confidence

\* C26: when an order is CONFIRMED with final_size s, wa_outbox holds a
\* size_confirm row of that order whose variables carry the size s, also
\* after a no and a second message with measurements.
C26_ConfirmedSizeWasProposed ==
  \A o \in Orders :
    workflows[o] = STATE_CONFIRMED =>
      \A i \in RecoIdx(o) :
        size_recommendations[i].final_size # NoSize =>
          \E j \in 1..Len(wa_outbox) :
            /\ wa_outbox[j].order_id = o
            /\ wa_outbox[j].template = "size_confirm"
            /\ wa_outbox[j].size = size_recommendations[i].final_size

\* The confirmation messages of the customer of an order that arrived after
\* the order's size_confirm row was inserted.
ConfirmationsAfterProposal(o) ==
  {r \in wa_inbox \ proposal[o].inbox :
      /\ proposal[o].made
      /\ r.from_phone = get_customer_phone(o)
      /\ r.parsed.confirmation \in {"yes", "no"}}

\* C27: an order leaves WAITING_CONFIRM only on a confirmation message that
\* arrived after its size_confirm row was inserted: to CONFIRMED on a yes,
\* back to WAITING_SIZE_INFO on a no. A yes or no that was in the inbox
\* before the proposal does not decide the order.
C27_DecidedByLaterConfirmation ==
  [][\A o \in Orders :
        (workflows[o] = STATE_WAITING_CONFIRM
           /\ workflows'[o] # STATE_WAITING_CONFIRM)
          => \E r \in ConfirmationsAfterProposal(o) :
                r.parsed.confirmation =
                  (IF workflows'[o] = STATE_CONFIRMED THEN "yes" ELSE "no")]_vars

\* C28: an order that has left NEW (it is in WAITING_SIZE_INFO,
\* WAITING_CONFIRM or CONFIRMED) has a size_check row in wa_outbox whose
\* status is SENT or DRY_RUN.
C28_SizeCheckDelivered ==
  \A o \in Orders :
    workflows[o] \in {STATE_WAITING_SIZE_INFO, STATE_WAITING_CONFIRM,
                      STATE_CONFIRMED}
      => \E i \in 1..Len(wa_outbox) :
            /\ wa_outbox[i].order_id = o
            /\ wa_outbox[i].template = "size_check"
            /\ wa_outbox[i].status \in {"SENT", "DRY_RUN"}

\* C29: every request to the webhook is persisted: after a request, wa_inbox
\* holds a row with its sender, timestamp and text and events_log holds the
\* event of the same id, so two different messages of one phone with the
\* same timestamp are both stored.
C29_EveryRequestStored ==
  hook # NoRequest =>
    /\ \E r \in wa_inbox :
          r.from_phone = hook.from /\ r.ts = hook.ts /\ r.text = hook.text
    /\ << hook.ts, hook.from >> \in events_log

====
